---- MODULE Spec2Model ----
(***************************************************************************)
(* join-monster, src/query-ast-to-sql-ast/index.js: the pass that turns    *)
(* the parsed GraphQL query of one resolver call into the SQL AST.         *)
(*                                                                         *)
(* A JavaScript value whose kind the code inspects (typeof, Array.isArray, *)
(* truthiness) is a record tagged with t; a name is a string.              *)
(***************************************************************************)
EXTENDS Integers, Sequences, FiniteSets, TLC

VARIABLES
  pc,           \* where the call of queryASTToSqlAST stands
  resolveInfo,  \* its argument: fieldNodes and parentType
  probe,        \* the definition of the field "probe" of the type User in the schema
  sqlAST,       \* the node the call builds and returns
  namespace,    \* the alias namespace of the call
  error         \* what the call threw

vars == <<pc, resolveInfo, probe, sqlAST, namespace, error>>

----------------------------------------------------------------------------
(* JavaScript values *)

Undefined == [t |-> "undefined"]

Str(s) == [t |-> "string", v |-> s]

Arr(a) == [t |-> "array", v |-> a]

Fn(id) == [t |-> "function", v |-> id]

\* every value of the model that JavaScript takes for false is undefined
Truthy(x) == ~("t" \in DOMAIN x /\ x.t = "undefined")

\* the object literal {}
EmptyObject == [k \in {} |-> 0]

Has(o, k) == k \in DOMAIN o

\* o[k] = v on an object
Put(o, k, v) == (k :> v) @@ o

\* o[k], undefined when the object has no such property
Get(o, k) == IF Has(o, k) THEN o[k] ELSE Undefined

NoError == [kind |-> "none"]

IsError(r) == r.err.kind # "none"

----------------------------------------------------------------------------
(* the schema: GraphQL types and the join-monster annotations on them *)

\* a type reference: the wrappers around a named type, outermost first
Named(typeName) == [wrap |-> <<>>, name |-> typeName]

List(type) == [type EXCEPT !.wrap = <<"GraphQLList">> \o @]

NonNull(type) == [type EXCEPT !.wrap = <<"GraphQLNonNull">> \o @]

\* a field definition that carries no join-monster annotation and no resolver
Field(fieldName, type) ==
  [name |-> fieldName, type |-> type,
   jmIgnoreAll |-> FALSE, jmIgnoreTable |-> FALSE,
   sqlExpr |-> Undefined, sqlColumn |-> Undefined, resolve |-> Undefined,
   sqlDeps |-> Undefined,
   sqlJoin |-> Undefined, sqlBatch |-> Undefined,
   junctionTable |-> Undefined, joinTable |-> Undefined,
   sqlJoins |-> Undefined, junctionBatch |-> Undefined,
   junctionTableKey |-> Undefined,
   sqlPaginate |-> FALSE, sortKey |-> Undefined, orderBy |-> Undefined,
   where |-> Undefined]

Scalar(fieldName) == Field(fieldName, Named("String"))

\* a type that is no table: no sqlTable in its _typeConfig
PlainType(typeName, ctor, interfaces, fields) ==
  [name |-> typeName, ctor |-> ctor, interfaces |-> interfaces, fields |-> fields,
   sqlTable |-> Undefined, uniqueKey |-> Undefined, alwaysFetch |-> Undefined,
   typeHint |-> Undefined]

UserFields ==
  ("id" :> Scalar("id"))
  @@ ("email" :> [Scalar("email") EXCEPT !.sqlColumn = Str("email_address")])
  @@ ("fullName" :> [Scalar("fullName") EXCEPT
                       !.sqlDeps = Arr(<<"first_name", "last_name">>),
                       !.resolve = Fn("fullName")])
  @@ ("initials" :> [Scalar("initials") EXCEPT
                       !.sqlDeps = Arr(<<"last_name", "first_name", "last_name">>),
                       !.resolve = Fn("initials")])
  @@ ("capitalized" :> [Scalar("capitalized") EXCEPT !.sqlExpr = Fn("upper")])
  @@ ("greeting" :> [Scalar("greeting") EXCEPT !.resolve = Fn("greeting")])
  @@ ("friend" :> [Field("friend", Named("User")) EXCEPT !.sqlJoin = Fn("friendJoin")])

PostFields ==
  ("title" :> Scalar("title"))
  @@ ("summary" :> [Scalar("summary") EXCEPT
                      !.sqlDeps = Arr(<<"body">>), !.resolve = Fn("summary")])

AnimalFields ==
  ("name" :> Scalar("name"))

DogFields ==
  ("name" :> Scalar("name"))
  @@ ("owner" :> [Field("owner", Named("User")) EXCEPT !.sqlJoin = Fn("ownerJoin")])
  @@ ("barks" :> [Scalar("barks") EXCEPT
                    !.sqlDeps = Arr(<<"kind">>), !.resolve = Fn("barks")])

CatFields ==
  ("name" :> Scalar("name"))
  @@ ("lives" :> Scalar("lives"))

UserConnectionFields ==
  ("edges" :> Field("edges", List(Named("UserEdge"))))
  @@ ("pageInfo" :> Field("pageInfo", NonNull(Named("PageInfo"))))

UserEdgeFields ==
  ("node" :> Field("node", Named("User")))
  @@ ("cursor" :> Scalar("cursor"))

\* schema._typeMap, but for the field "probe" of User
TypeMap ==
  ("User" :> [PlainType("User", "GraphQLObjectType", <<"Person">>, UserFields)
                EXCEPT !.sqlTable = Str("accounts"), !.uniqueKey = Str("id")])
  @@ ("Person" :> PlainType("Person", "GraphQLInterfaceType", <<>>,
                            ("id" :> Scalar("id"))))
  @@ ("Post" :> [PlainType("Post", "GraphQLObjectType", <<>>, PostFields)
                   EXCEPT !.sqlTable = Str("posts"),
                          !.uniqueKey = Arr(<<"author_id", "slug">>),
                          !.alwaysFetch = Arr(<<"created_at", "kind">>)])
  @@ ("Animal" :> [PlainType("Animal", "GraphQLInterfaceType", <<>>, AnimalFields)
                     EXCEPT !.sqlTable = Str("animals"), !.uniqueKey = Str("id"),
                            !.alwaysFetch = Str("kind"), !.typeHint = Str("kind")])
  @@ ("Dog" :> [PlainType("Dog", "GraphQLObjectType", <<"Animal">>, DogFields)
                  EXCEPT !.sqlTable = Str("dogs"), !.uniqueKey = Str("id")])
  @@ ("Cat" :> [PlainType("Cat", "GraphQLObjectType", <<"Animal">>, CatFields)
                  EXCEPT !.sqlTable = Str("cats"), !.uniqueKey = Str("id")])
  @@ ("UserConnection" :> PlainType("UserConnection", "GraphQLObjectType", <<>>,
                                    UserConnectionFields))
  @@ ("UserEdge" :> PlainType("UserEdge", "GraphQLObjectType", <<>>, UserEdgeFields))
  @@ ("PageInfo" :> PlainType("PageInfo", "GraphQLObjectType", <<>>,
                              ("cursor" :> Scalar("cursor"))))
  @@ ("String" :> [name |-> "String", ctor |-> "GraphQLScalarType"])

\* schema._typeMap[typeName]
typeNamed(typeName) ==
  IF typeName = "User"
  THEN [TypeMap["User"] EXCEPT !.fields = ("probe" :> probe) @@ @]
  ELSE TypeMap[typeName]

\* type.constructor.name of a type reference
constructorName(type) ==
  IF type.wrap # <<>> THEN Head(type.wrap) ELSE TypeMap[type.name].ctor

\* type.ofType
ofType(type) == [type EXCEPT !.wrap = Tail(@)]

stripNonNullType(type) ==
  IF constructorName(type) = "GraphQLNonNull" THEN ofType(type) ELSE type

\* the named type a reference with no wrapper left stands for
TypeOf(type) == typeNamed(type.name)

TABLE_TYPES == {"GraphQLObjectType", "GraphQLUnionType", "GraphQLInterfaceType"}

----------------------------------------------------------------------------
(* the parsed query *)

FieldNode(fieldName, arguments, selections) ==
  [kind |-> "Field", name |-> fieldName, arguments |-> arguments,
   selectionSet |-> [selections |-> selections]]

\* a field selected without a selection set
Leaf(fieldName) ==
  [kind |-> "Field", name |-> fieldName, arguments |-> <<>>, selectionSet |-> Undefined]

InlineFragment(typeName, selections) ==
  [kind |-> "InlineFragment", typeCondition |-> typeName,
   selectionSet |-> [selections |-> selections]]

FragmentSpread(fragmentName) == [kind |-> "FragmentSpread", name |-> fragmentName]

FragmentDefinition(typeName, selections) ==
  [kind |-> "FragmentDefinition", typeCondition |-> typeName,
   selectionSet |-> [selections |-> selections]]

\* resolveInfo.fragments: the fragment definitions of the query document
Fragments ==
  [UserNames |-> FragmentDefinition("User", <<Leaf("fullName"), Leaf("email")>>),
   PersonId |-> FragmentDefinition("Person", <<Leaf("id")>>),
   PostTitle |-> FragmentDefinition("Post", <<Leaf("title")>>),
   ProbeAgain |-> FragmentDefinition("User", <<FieldNode("probe", <<>>, <<>>)>>),
   DogBarks |-> FragmentDefinition("Dog", <<Leaf("barks")>>),
   AnimalName |-> FragmentDefinition("Animal", <<Leaf("name")>>),
   Edges |-> FragmentDefinition("UserConnection",
               <<FieldNode("edges", <<>>,
                   <<FieldNode("node", <<>>, <<Leaf("email")>>)>>)>>),
   Node |-> FragmentDefinition("UserEdge",
               <<FieldNode("node", <<>>, <<Leaf("id")>>)>>)]

----------------------------------------------------------------------------
(* the alias namespace, one per call of queryASTToSqlAST *)

\* const x = value, then the statements that follow it
With(value, Rest(_)) == Rest(value)

NewAliasNamespace == [table |-> {}, column |-> {}]

RECURSIVE Unused(_, _)
\* the name itself, or the name with underscores added to its end until it is free
Unused(taken, alias) ==
  IF alias \in taken THEN Unused(taken, alias \o "_") ELSE alias

\* namespace.generate(partition, name): the alias, and the namespace after the call
generate(ns, partition, name) ==
  With(Unused(ns[partition], name), LAMBDA alias :
    [as |-> alias, namespace |-> [ns EXCEPT ![partition] = @ \cup {alias}]])

\* util.wrap: an array as it is, anything else as an array of one element
wrap(x) == IF x.t = "array" THEN x.v ELSE <<x.v>>

\* graphql's getArgumentValues: the argument nodes of the field as a name -> value map
getArgumentValues(queryASTNode) ==
  [n \in {queryASTNode.arguments[i].name : i \in DOMAIN queryASTNode.arguments} |->
     queryASTNode.arguments[CHOOSE i \in DOMAIN queryASTNode.arguments :
                              queryASTNode.arguments[i].name = n].value]

----------------------------------------------------------------------------
(* columns join-monster adds by itself *)

\* children.push(child)
pushChild(sqlASTNode, child) == [sqlASTNode EXCEPT !.children = Append(@, child)]

columnToASTChild(columnName, ns) ==
  With(generate(ns, "column", columnName), LAMBDA g :
    [node |-> [type |-> "column", name |-> columnName, fieldName |-> columnName,
               as |-> g.as],
     namespace |-> g.namespace])

\* name.slice(0, 3)
Slice3(name) == SubSeq(name, 1, IF Len(name) < 3 THEN Len(name) ELSE 3)

RECURSIVE JoinHash(_)
\* parts.join('#')
JoinHash(parts) ==
  IF parts = <<>> THEN ""
  ELSE IF Len(parts) = 1 THEN parts[1]
  ELSE parts[1] \o "#" \o JoinHash(Tail(parts))

toClumsyName(keyArr) == JoinHash([i \in DOMAIN keyArr |-> Slice3(keyArr[i])])

\* lines 388-394: the child for a composite key
compositeToASTChild(key, clumsyName, ns) ==
  With(generate(ns, "column", clumsyName), LAMBDA g :
    [node |-> [type |-> "composite", name |-> key, fieldName |-> clumsyName,
               as |-> g.as],
     namespace |-> g.namespace])

\* the node is Undefined when the key is neither a string nor an array
keyToASTChild(key, ns) ==
  IF key.t = "string" THEN columnToASTChild(key.v, ns)
  ELSE IF key.t = "array" THEN compositeToASTChild(key.v, toClumsyName(key.v), ns)
  ELSE [node |-> Undefined, namespace |-> ns]

\* a sortKey or orderBy given as a function is modelled by the value it returns
handleOrderBy(sqlASTNode, field) == Put(sqlASTNode, "orderBy", field.orderBy)

\* lines 498-510 without the throw of line 508
getSortColumns_lenient(field, sqlASTNode) ==
  IF Truthy(field.sortKey) THEN
    [err |-> NoError, node |-> Put(sqlASTNode, "sortKey", field.sortKey)]
  ELSE IF Truthy(field.orderBy) THEN
    [err |-> NoError, node |-> handleOrderBy(sqlASTNode, field)]
  ELSE [err |-> NoError, node |-> sqlASTNode]

getSortColumns(field, sqlASTNode) ==
  IF Truthy(field.sortKey) THEN
    [err |-> NoError, node |-> Put(sqlASTNode, "sortKey", field.sortKey)]
  ELSE IF Truthy(field.orderBy) THEN
    [err |-> NoError, node |-> handleOrderBy(sqlASTNode, field)]
  ELSE
    [err |-> [kind |-> "Error",
              message |-> "\"sortKey\" or \"orderBy\" required if \"sqlPaginate\" is true"],
     node |-> sqlASTNode]

\* lines 405-414 and 420-428: the column pushed for paging, marked when the
\* node goes through a junction table
pagingColumn(sqlASTNode, column, as) ==
  IF Has(sqlASTNode, "junctionTable")
  THEN [type |-> "column", name |-> column, fieldName |-> column, as |-> as,
        fromOtherTable |-> sqlASTNode.junctionTableAs]
  ELSE [type |-> "column", name |-> column, fieldName |-> column, as |-> as]

RECURSIVE pushSortKeyColumns(_, _, _)
\* lines 404-416: the loop over wrap(sortKey.key)
pushSortKeyColumns(sqlASTNode, columns, ns) ==
  IF columns = <<>> THEN [err |-> NoError, node |-> sqlASTNode, namespace |-> ns]
  ELSE
    With(generate(ns, "column", Head(columns)), LAMBDA g :
      pushSortKeyColumns(pushChild(sqlASTNode, pagingColumn(sqlASTNode, Head(columns), g.as)),
                         Tail(columns), g.namespace))

\* lines 401-416: paging by the sort key(s)
sortKeyColumns(sqlASTNode, ns) ==
  IF ~Truthy(sqlASTNode.sortKey.key) THEN
    [err |-> [kind |-> "AssertionError", message |-> "\"sortKey\" must have \"key\""],
     node |-> sqlASTNode, namespace |-> ns]
  ELSE IF ~Truthy(sqlASTNode.sortKey.order) THEN
    [err |-> [kind |-> "AssertionError", message |-> "\"sortKey\" must have \"order\""],
     node |-> sqlASTNode, namespace |-> ns]
  ELSE pushSortKeyColumns(sqlASTNode, wrap(sqlASTNode.sortKey.key), ns)

\* lines 418-429: paging that can visit arbitrary pages
totalColumn(sqlASTNode, ns) ==
  With(generate(ns, "column", "$total"), LAMBDA g :
    [err |-> NoError,
     node |-> pushChild(sqlASTNode, pagingColumn(sqlASTNode, "$total", g.as)),
     namespace |-> g.namespace])

\* lines 399-431 with the test of orderBy before the test of sortKey
handleColumnsRequiredForPagination_orderByFirst(sqlASTNode, ns) ==
  IF Truthy(Get(sqlASTNode, "orderBy")) THEN totalColumn(sqlASTNode, ns)
  ELSE IF Truthy(Get(sqlASTNode, "sortKey")) THEN sortKeyColumns(sqlASTNode, ns)
  ELSE [err |-> NoError, node |-> sqlASTNode, namespace |-> ns]

handleColumnsRequiredForPagination(sqlASTNode, ns) ==
  IF Truthy(Get(sqlASTNode, "sortKey")) THEN sortKeyColumns(sqlASTNode, ns)
  ELSE IF Truthy(Get(sqlASTNode, "orderBy")) THEN totalColumn(sqlASTNode, ns)
  ELSE [err |-> NoError, node |-> sqlASTNode, namespace |-> ns]

----------------------------------------------------------------------------
(* relay connections *)

RECURSIVE spreadFragments(_, _, _)
\* a validated query has no cycle of fragment spreads, so the recursion ends
spreadFragments(selections, fragments, typeName) ==
  IF selections = <<>> THEN <<>>
  ELSE
    (IF Head(selections).kind = "FragmentSpread" THEN
       spreadFragments(fragments[Head(selections).name].selectionSet.selections,
                       fragments, typeName)
     ELSE IF Head(selections).kind = "InlineFragment" THEN
       IF Head(selections).typeCondition = typeName
       THEN spreadFragments(Head(selections).selectionSet.selections, fragments, typeName)
       ELSE <<>>
     ELSE <<Head(selections)>>)
    \o spreadFragments(Tail(selections), fragments, typeName)

\* the least index of the selections with that name, 0 when there is none
findIndexNamed(selections, name) ==
  IF \E i \in DOMAIN selections : selections[i].name = name
  THEN CHOOSE i \in DOMAIN selections :
         /\ selections[i].name = name
         /\ \A j \in 1..(i - 1) : selections[j].name # name
  ELSE 0

\* found[0], Undefined when nothing was found
elementAt(selections, i) == IF i = 0 THEN Undefined ELSE selections[i]

\* selections.find(selection => selection.name.value === name), Undefined when none
findNamed(selections, name) == elementAt(selections, findIndexNamed(selections, name))

\* lines 440-449: the selection of "node" under the selection of "edges", {} when
\* either is missing, with the arguments of the connection field
nodeUnder(edges, args, fragments, typeName) ==
  With(IF Truthy(edges)
       THEN findNamed(spreadFragments(edges.selectionSet.selections, fragments, typeName),
                      "node")
       ELSE Undefined,
       LAMBDA node : Put(IF Truthy(node) THEN node ELSE EmptyObject, "arguments", args))

\* gqlType is the connection type; the result is the type of "node" and the
\* selection of "node", with the arguments of the connection field on it
stripRelayConnection(gqlType, queryASTNode, fragments) ==
  [gqlType |-> typeNamed(ofType(gqlType.fields["edges"].type).name).fields["node"].type,
   queryASTNode |->
     nodeUnder(findNamed(spreadFragments(queryASTNode.selectionSet.selections,
                                         fragments, gqlType.name), "edges"),
               queryASTNode.arguments, fragments, gqlType.name)]

----------------------------------------------------------------------------
(* the translation of fields and selections *)

Ok(node, ns) == [err |-> NoError, node |-> node, namespace |-> ns]

Throw(err, node, ns) == [err |-> err, node |-> node, namespace |-> ns]

\* children.find(child => child.fieldName === name && child.type === 'table'):
\* the index of that child, 0 when there is none
findExistingNode(children, name) ==
  IF \E i \in DOMAIN children :
       /\ Has(children[i], "fieldName") /\ children[i].fieldName = name
       /\ Has(children[i], "type") /\ children[i].type = "table"
  THEN CHOOSE i \in DOMAIN children :
         /\ Has(children[i], "fieldName") /\ children[i].fieldName = name
         /\ Has(children[i], "type") /\ children[i].type = "table"
         /\ \A j \in 1..(i - 1) :
              ~(/\ Has(children[j], "fieldName") /\ children[j].fieldName = name
                /\ Has(children[j], "type") /\ children[j].type = "table")
  ELSE 0

RECURSIVE pushColumns(_, _, _)
\* for (let column of columns) children.push(columnToASTChild(column, namespace))
pushColumns(sqlASTNode, columns, ns) ==
  IF columns = <<>> THEN [node |-> sqlASTNode, namespace |-> ns]
  ELSE With(columnToASTChild(Head(columns), ns), LAMBDA c :
         pushColumns(pushChild(sqlASTNode, c.node), Tail(columns), c.namespace))

\* lines 191-195 and 200-203: the keys of a batch, thisKey from the other table when there is one
batchKeys(batch, otherTable, ns) ==
  With(columnToASTChild(batch.thisKey, ns), LAMBDA thisKey :
  With(columnToASTChild(batch.parentKey, thisKey.namespace), LAMBDA parentKey :
    [thisKey |-> IF Truthy(otherTable)
                 THEN Put(thisKey.node, "fromOtherTable", otherTable.v)
                 ELSE thisKey.node,
     parentKey |-> parentKey.node,
     namespace |-> parentKey.namespace]))

\* lines 185-196: the junction is batched
junctionBatchOf(sqlASTNode, field, junctionTableAs, ns) ==
  With(keyToASTChild(field.junctionTableKey, ns), LAMBDA k :
  With(batchKeys(field.junctionBatch, Str(junctionTableAs), k.namespace), LAMBDA keys :
    Ok(Put(pushChild(sqlASTNode,
                     Put(IF Truthy(k.node) THEN k.node ELSE EmptyObject,
                         "fromOtherTable", junctionTableAs)),
           "junctionBatch",
           [sqlJoin |-> field.junctionBatch.sqlJoin,
            thisKey |-> keys.thisKey, parentKey |-> keys.parentKey]),
       keys.namespace)))

\* lines 177-197: the table is reached through a junction table
junctionOf(sqlASTNode, field, junctionTable, ns) ==
  With(generate(ns, "table", junctionTable), LAMBDA g :
    IF Truthy(field.sqlJoins)
    THEN Ok(Put(Put(Put(sqlASTNode, "junctionTable", junctionTable),
                    "junctionTableAs", g.as),
                "sqlJoins", field.sqlJoins), g.namespace)
    ELSE junctionBatchOf(Put(Put(sqlASTNode, "junctionTable", junctionTable),
                             "junctionTableAs", g.as),
                         field, g.as, g.namespace))

\* handleTable, lines 168-204: how the table is related to its parent
relationOf(sqlASTNode, field, ns) ==
  IF Truthy(field.sqlJoin) THEN Ok(Put(sqlASTNode, "sqlJoin", field.sqlJoin), ns)
  ELSE IF Truthy(field.junctionTable) \/ Truthy(field.joinTable) THEN
    IF ~(Truthy(field.sqlJoins) \/ Truthy(field.junctionBatch)) THEN
      Throw([kind |-> "AssertionError",
             message |-> "Must define sqlJoins or junctionBatch for a many-to-many"],
            sqlASTNode, ns)
    ELSE junctionOf(sqlASTNode, field,
                    IF Truthy(field.junctionTable) THEN field.junctionTable.v
                    ELSE field.joinTable.v,
                    ns)
  ELSE IF Truthy(field.sqlBatch) THEN
    With(batchKeys(field.sqlBatch, Undefined, ns), LAMBDA keys :
      Ok(Put(sqlASTNode, "sqlBatch",
             [thisKey |-> keys.thisKey, parentKey |-> keys.parentKey]),
         keys.namespace))
  ELSE Ok(sqlASTNode, ns)

\* the index of the entry of typedChildren for the type
typedIndex(sqlASTNode, typeName) ==
  CHOOSE i \in DOMAIN sqlASTNode.typedChildren : sqlASTNode.typedChildren[i].type = typeName

\* the list a walk of a union's selections pushes to: the children of the
\* node (cur = Undefined) or typedChildren[cur.v]
listOf(sqlASTNode, cur) ==
  IF ~Truthy(cur) THEN sqlASTNode.children
  ELSE sqlASTNode.typedChildren[typedIndex(sqlASTNode, cur.v)].children

withList(sqlASTNode, cur, list) ==
  IF ~Truthy(cur) THEN [sqlASTNode EXCEPT !.children = list]
  ELSE [sqlASTNode EXCEPT !.typedChildren[typedIndex(sqlASTNode, cur.v)].children = list]

\* typedChildren[name] = typedChildren[name] || []; typedChildren is kept as the
\* sequence of its entries in the order they were added (Object.values order)
touchTyped(sqlASTNode, typeName) ==
  IF \E i \in DOMAIN sqlASTNode.typedChildren : sqlASTNode.typedChildren[i].type = typeName
  THEN sqlASTNode
  ELSE [sqlASTNode EXCEPT !.typedChildren =
          Append(@, [type |-> typeName, children |-> <<>>])]

\* line 45: /^__/.test(fieldName)
isInternal(fieldName) == Len(fieldName) >= 2 /\ SubSeq(fieldName, 1, 2) = "__"

\* line 76: the type is a relay connection
isRelayConnection(gqlType) ==
  /\ constructorName(gqlType) = "GraphQLObjectType"
  /\ "edges" \in DOMAIN TypeOf(gqlType).fields
  /\ "pageInfo" \in DOMAIN TypeOf(gqlType).fields

\* lines 98-102: is this a table in SQL?
isTable(field, gqlType) ==
  /\ ~field.jmIgnoreTable
  /\ constructorName(gqlType) \in TABLE_TYPES
  /\ Truthy(TypeOf(gqlType).sqlTable)

\* lines 103-105 with the assertion made from the second level of nesting only
lacksRelation_deeper(field, depth) ==
  /\ depth > 1
  /\ ~(Truthy(field.sqlJoin) \/ Truthy(field.sqlBatch) \/ Truthy(field.junctionTable))

\* lines 103-105: the assertion on the relation of a nested table fails
lacksRelation(field, depth) ==
  /\ depth >= 1
  /\ ~(Truthy(field.sqlJoin) \/ Truthy(field.sqlBatch) \/ Truthy(field.junctionTable))

\* line 117 with the test of sqlColumn only
isColumn_declared(field) == Truthy(field.sqlColumn)

\* line 117: is it just a column?
isColumn(field) == Truthy(field.sqlColumn) \/ ~Truthy(field.resolve)

\* lines 75-82: for a relay connection the type
\* of the nodes and the selection of "node"
unwrapped(type0, type1, queryASTNode) ==
  IF isRelayConnection(type1) THEN
    With(stripRelayConnection(TypeOf(type1), queryASTNode, Fragments), LAMBDA stripped :
      [gqlType |-> stripped.gqlType, queryASTNode |-> stripped.queryASTNode,
       grabMany |-> TRUE, isConnection |-> TRUE])
  ELSE
    [gqlType |-> type1, queryASTNode |-> queryASTNode,
     grabMany |-> constructorName(type0) = "GraphQLList", isConnection |-> FALSE]

\* lines 65-73: the type under non-null, then the type of the
\* elements when it is a list
unwrap(type0, queryASTNode) ==
  unwrapped(type0,
            IF constructorName(type0) = "GraphQLList"
            THEN stripNonNullType(ofType(type0)) ELSE type0,
            queryASTNode)

\* lines 84-91: a paginated field has to be a connection with a sort order
paginated(field, gqlType, isConnection, sqlASTNode) ==
  IF field.sqlPaginate
  THEN IF isConnection THEN getSortColumns(field, Put(sqlASTNode, "paginate", TRUE))
       ELSE [err |-> [kind |-> "Error",
                      message |-> "To paginate the type, it must fulfil the relay spec",
                      type |-> gqlType.name],
             node |-> sqlASTNode]
  ELSE [err |-> NoError, node |-> sqlASTNode]

\* lines 111-115 and 120-124: fieldName and the alias of an expression or a column
aliased(sqlASTNode, field, parentTypeNode, ns) ==
  With(generate(ns, "column",
                IF Truthy(Get(sqlASTNode, "defferedFrom"))
                THEN field.name \o "@" \o parentTypeNode.name ELSE field.name),
       LAMBDA g : Ok(Put(Put(sqlASTNode, "fieldName", field.name), "as", g.as),
                     g.namespace))

\* lines 138-161: the table, its alias and what the field says of its rows
tableOf(sqlASTNode, field, config, as, grabMany) ==
  With(Put(Put(Put(sqlASTNode, "type", "table"), "name", config.sqlTable.v), "as", as),
       LAMBDA node1 :
  With(IF Truthy(field.orderBy) /\ ~Truthy(Get(node1, "orderBy"))
       THEN handleOrderBy(node1, field) ELSE node1,
       LAMBDA node2 :
  With(Put(Put(Put(node2, "children",
                   IF Has(node2, "children") THEN node2.children ELSE <<>>),
               "fieldName", field.name),
           "grabMany", grabMany),
       LAMBDA node3 :
    IF Truthy(field.where) THEN Put(node3, "where", field.where) ELSE node3)))

\* lines 218-222: the columns of alwaysFetch
fetchAlways(sqlASTNode, config, ns) ==
  IF Truthy(config.alwaysFetch)
  THEN pushColumns(sqlASTNode, wrap(config.alwaysFetch), ns)
  ELSE [node |-> sqlASTNode, namespace |-> ns]

\* lines 226-229: the column of typeHint on a union or an interface
hintType(sqlASTNode, config, ns) ==
  IF Truthy(config.typeHint)
     /\ config.ctor \in {"GraphQLUnionType", "GraphQLInterfaceType"}
  THEN pushColumns(sqlASTNode, <<config.typeHint.v>>, ns)
  ELSE [node |-> sqlASTNode, namespace |-> ns]

\* lines 232-234
pageColumns(sqlASTNode, ns) ==
  IF Has(sqlASTNode, "paginate") /\ sqlASTNode.paginate
  THEN handleColumnsRequiredForPagination(sqlASTNode, ns)
  ELSE Ok(sqlASTNode, ns)

\* lines 216-234: the columns the table always selects, the unique key first
ownColumns(sqlASTNode, config, ns) ==
  With(keyToASTChild(config.uniqueKey, ns), LAMBDA key :
  With(fetchAlways(pushChild(sqlASTNode, key.node), config, key.namespace),
       LAMBDA fetched :
  With(hintType(fetched.node, config, fetched.namespace), LAMBDA hinted :
    pageColumns(hinted.node, hinted.namespace))))

\* lines 256-264 and 317-325: the node taken up again or a new one, marked with
\* the type its fragment was deferred from
nodeAt(children, i, internalOptions) ==
  IF Truthy(internalOptions.defferedFrom)
  THEN Put(IF i > 0 THEN children[i] ELSE EmptyObject,
           "defferedFrom", internalOptions.defferedFrom)
  ELSE IF i > 0 THEN children[i] ELSE EmptyObject

\* the list with the node put back where it was found, or pushed
placed(children, i, node) ==
  IF i > 0 THEN [children EXCEPT ![i] = node] ELSE Append(children, node)

\* the fragment a selection stands for
fragmentOf(selection) ==
  IF selection.kind = "InlineFragment" THEN selection ELSE Fragments[selection.name]

RECURSIVE populateASTNode(_, _, _, _, _)
RECURSIVE classified(_, _, _, _, _, _, _, _)
RECURSIVE handleTable(_, _, _, _, _, _, _)
RECURSIVE handleSelections(_, _, _, _, _, _)
RECURSIVE handleSelection(_, _, _, _, _, _)
RECURSIVE handleUnionSelections(_, _, _, _, _, _, _)
RECURSIVE handleUnionSelection(_, _, _, _, _, _, _)
RECURSIVE handleUnionFragment(_, _, _, _, _, _, _)

\* the result is the node as populated, the namespace after the call, and the
\* error thrown, if any
populateASTNode(queryASTNode, parentTypeNode, sqlASTNode, ns, depth) ==
  IF isInternal(queryASTNode.name) THEN
    Ok(Put(sqlASTNode, "type", "noop"), ns)
  ELSE IF queryASTNode.name \notin DOMAIN parentTypeNode.fields THEN
    Throw([kind |-> "Error", message |-> "The field is not in the type",
           fieldName |-> queryASTNode.name, parentType |-> parentTypeNode.name],
          sqlASTNode, ns)
  ELSE IF parentTypeNode.fields[queryASTNode.name].jmIgnoreAll THEN
    Ok(Put(sqlASTNode, "type", "noop"), ns)
  ELSE
    With(unwrap(stripNonNullType(parentTypeNode.fields[queryASTNode.name].type),
                queryASTNode),
         LAMBDA u :
    With(paginated(parentTypeNode.fields[queryASTNode.name], u.gqlType, u.isConnection,
                   Put(sqlASTNode, "args", getArgumentValues(queryASTNode))),
         LAMBDA sorted :
      IF IsError(sorted) THEN Throw(sorted.err, sorted.node, ns)
      ELSE classified(u.queryASTNode, parentTypeNode,
                      parentTypeNode.fields[queryASTNode.name], u.gqlType,
                      sorted.node, ns, u.grabMany, depth)))

\* lines 97-132: the variant of the node
classified(queryASTNode, parentTypeNode, field, gqlType, sqlASTNode, ns, grabMany, depth) ==
  IF isTable(field, gqlType) THEN
    IF lacksRelation(field, depth) THEN
      Throw([kind |-> "AssertionError",
             message |-> "you must define sqlJoin, sqlBatch, or junctionTable on that field",
             fieldName |-> field.name, parentType |-> parentTypeNode.name],
            sqlASTNode, ns)
    ELSE handleTable(sqlASTNode, queryASTNode, field, TypeOf(gqlType), ns,
                     grabMany, depth)
  ELSE IF Truthy(field.sqlExpr) THEN
    aliased(Put(Put(sqlASTNode, "type", "expression"), "sqlExpr", field.sqlExpr),
            field, parentTypeNode, ns)
  ELSE IF isColumn(field) THEN
    aliased(Put(Put(sqlASTNode, "type", "column"),
                "name", IF Truthy(field.sqlColumn) THEN field.sqlColumn.v
                        ELSE field.name),
            field, parentTypeNode, ns)
  ELSE IF Truthy(field.sqlDeps) THEN
    Ok(Put(Put(sqlASTNode, "type", "columnDeps"), "names", field.sqlDeps), ns)
  ELSE Ok(Put(sqlASTNode, "type", "noop"), ns)

handleTable(sqlASTNode, queryASTNode, field, gqlType, ns, grabMany, depth) ==
  With(generate(ns, "table", field.name), LAMBDA g :
  With(relationOf(tableOf(sqlASTNode, field, gqlType, g.as, grabMany), field,
                  g.namespace),
       LAMBDA rel :
    IF IsError(rel) THEN rel
    ELSE IF ~Truthy(gqlType.uniqueKey) THEN
      Throw([kind |-> "Error", message |-> "You must specify the uniqueKey",
             sqlTable |-> gqlType.sqlTable.v], rel.node, rel.namespace)
    ELSE
    With(ownColumns(rel.node, gqlType, rel.namespace), LAMBDA paged :
      IF IsError(paged) THEN paged
      ELSE IF ~Truthy(Get(queryASTNode, "selectionSet")) THEN paged
      ELSE IF gqlType.ctor \in {"GraphQLUnionType", "GraphQLInterfaceType"} THEN
        With(handleUnionSelections(
               Put(Put(paged.node, "type", "union"), "typedChildren", <<>>),
               Undefined, queryASTNode.selectionSet.selections, gqlType,
               paged.namespace, depth, [defferedFrom |-> Undefined]),
             LAMBDA walked :
               [err |-> walked.err, node |-> walked.node,
                namespace |-> walked.namespace])
      ELSE
        With(handleSelections(paged.node.children,
                              queryASTNode.selectionSet.selections, gqlType,
                              paged.namespace, depth, [defferedFrom |-> Undefined]),
             LAMBDA walked :
               [err |-> walked.err,
                node |-> [paged.node EXCEPT !.children = walked.children],
                namespace |-> walked.namespace]))))

\* lines 268-301: a fragment among the selections of a union or an interface
handleUnionFragment(sqlASTNode, cur, fragment, gqlType, ns, depth, internalOptions) ==
  With(typeNamed(fragment.typeCondition), LAMBDA deferredType :
    IF deferredType.ctor = "GraphQLObjectType" THEN
      With(touchTyped(sqlASTNode, deferredType.name), LAMBDA node1 :
      With(handleSelections(listOf(node1, Str(deferredType.name)),
                            fragment.selectionSet.selections, deferredType, ns, depth,
                            [defferedFrom |-> Str(gqlType.name)]),
           LAMBDA w :
        [err |-> w.err, node |-> withList(node1, Str(deferredType.name), w.children),
         namespace |-> w.namespace,
         internalOptions |-> [defferedFrom |-> Str(gqlType.name)],
         cur |-> Str(deferredType.name)]))
    ELSE
      With(handleUnionSelections(sqlASTNode, cur, fragment.selectionSet.selections,
                                 deferredType, ns, depth, internalOptions),
           LAMBDA w :
        [err |-> w.err, node |-> w.node, namespace |-> w.namespace,
         internalOptions |-> w.internalOptions, cur |-> cur]))

\* lines 250-305: one turn of the loop over the selections
handleUnionSelection(sqlASTNode, cur, selection, gqlType, ns, depth, internalOptions) ==
  IF selection.kind = "Field" THEN
    With(findExistingNode(listOf(sqlASTNode, cur), selection.name), LAMBDA i :
    With(populateASTNode(selection, gqlType,
                         nodeAt(listOf(sqlASTNode, cur), i, internalOptions),
                         ns, depth + 1),
         LAMBDA p :
      [err |-> p.err,
       node |-> withList(sqlASTNode, cur, placed(listOf(sqlASTNode, cur), i, p.node)),
       namespace |-> p.namespace, internalOptions |-> internalOptions, cur |-> cur]))
  ELSE IF selection.kind \in {"InlineFragment", "FragmentSpread"} THEN
    handleUnionFragment(sqlASTNode, cur, fragmentOf(selection), gqlType, ns, depth,
                        internalOptions)
  ELSE
    [err |-> [kind |-> "Error", message |-> "Unknown selection kind"],
     node |-> sqlASTNode, namespace |-> ns, internalOptions |-> internalOptions,
     cur |-> cur]

\* cur names the list the local variable children refers to (see listOf); the
\* result is the union node with its lists as the walk left them, the namespace,
\* the internalOptions object as the walk left it, and the error thrown, if any
handleUnionSelections(sqlASTNode, cur, selections, gqlType, ns, depth, internalOptions) ==
  IF selections = <<>> THEN
    [err |-> NoError, node |-> sqlASTNode, namespace |-> ns,
     internalOptions |-> internalOptions]
  ELSE
    With(handleUnionSelection(sqlASTNode, cur, Head(selections), gqlType, ns, depth,
                              internalOptions),
         LAMBDA step :
      IF IsError(step) THEN
        [err |-> step.err, node |-> step.node, namespace |-> step.namespace,
         internalOptions |-> step.internalOptions]
      ELSE handleUnionSelections(step.node, step.cur, Tail(selections), gqlType,
                                 step.namespace, depth, step.internalOptions))

\* lines 310-357: one turn of the loop over the selections
handleSelection(children, selection, gqlType, ns, depth, internalOptions) ==
  IF selection.kind = "Field" THEN
    With(findExistingNode(children, selection.name), LAMBDA i :
    With(populateASTNode(selection, gqlType, nodeAt(children, i, internalOptions),
                         ns, depth + 1),
         LAMBDA p :
      [err |-> p.err, children |-> placed(children, i, p.node),
       namespace |-> p.namespace]))
  ELSE IF selection.kind \in {"InlineFragment", "FragmentSpread"} THEN
    IF \/ fragmentOf(selection).typeCondition = gqlType.name
       \/ \E k \in DOMAIN gqlType.interfaces :
            gqlType.interfaces[k] = fragmentOf(selection).typeCondition
    THEN handleSelections(children, fragmentOf(selection).selectionSet.selections,
                          gqlType, ns, depth, internalOptions)
    ELSE [err |-> NoError, children |-> children, namespace |-> ns]
  ELSE
    [err |-> [kind |-> "Error", message |-> "Unknown selection kind"],
     children |-> children, namespace |-> ns]

\* the result is the list as the walk left it, the namespace after the walk,
\* and the error thrown, if any
handleSelections(children, selections, gqlType, ns, depth, internalOptions) ==
  IF selections = <<>> THEN [err |-> NoError, children |-> children, namespace |-> ns]
  ELSE
    With(handleSelection(children, Head(selections), gqlType, ns, depth,
                         internalOptions),
         LAMBDA step :
      IF IsError(step) THEN step
      ELSE handleSelections(step.children, Tail(selections), gqlType, step.namespace,
                            depth, internalOptions))

----------------------------------------------------------------------------
(* one columnDeps node per list of children *)

RECURSIVE addAll(_, _)
\* names.forEach(name => deps.add(name)) on a Set, kept in insertion order
addAll(deps, names) ==
  IF names = <<>> THEN deps
  ELSE addAll(IF \E k \in DOMAIN deps : deps[k] = Head(names) THEN deps
              ELSE Append(deps, Head(names)),
              Tail(names))

RECURSIVE aliasDeps(_, _, _)
\* deps.forEach(name => { newNode.names[name] = namespace.generate('column', name) })
aliasDeps(deps, names, ns) ==
  IF deps = <<>> THEN [names |-> names, namespace |-> ns]
  ELSE With(generate(ns, "column", Head(deps)), LAMBDA g :
         aliasDeps(Tail(deps), Put(names, Head(deps), g.as), g.namespace))

\* children.splice(i, 1)
splice1(children, i) ==
  SubSeq(children, 1, i - 1) \o SubSeq(children, i + 1, Len(children))

\* child.type, "undefined" on a node that has none
typeOfChild(child) == IF Has(child, "type") THEN child.type ELSE "undefined"

RECURSIVE pruneDuplicateSqlDeps(_, _)
RECURSIVE pruneChildren(_, _, _, _)
RECURSIVE pruneTyped(_, _, _)

\* lines 472-493 with the new node put before the children (unshift for push)
pruneChildren_unshift(children, i, deps, ns) ==
  IF i = 0 THEN
    With(aliasDeps(deps, EmptyObject, ns), LAMBDA made :
      [children |-> <<[type |-> "columnDeps", names |-> made.names]>> \o children,
       namespace |-> made.namespace])
  ELSE IF typeOfChild(children[i]) = "columnDeps" THEN
    pruneChildren(splice1(children, i), i - 1, addAll(deps, children[i].names.v), ns)
  ELSE IF typeOfChild(children[i]) \in {"table", "union"} THEN
    With(pruneDuplicateSqlDeps(children[i], ns), LAMBDA pruned :
      pruneChildren([children EXCEPT ![i] = pruned.node], i - 1, deps,
                    pruned.namespace))
  ELSE pruneChildren(children, i - 1, deps, ns)

\* the loop for (let i = children.length - 1; i >= 0; i--), i counted from 1, and
\* the node pushed after it
pruneChildren(children, i, deps, ns) ==
  IF i = 0 THEN
    With(aliasDeps(deps, EmptyObject, ns), LAMBDA made :
      [children |-> Append(children, [type |-> "columnDeps", names |-> made.names]),
       namespace |-> made.namespace])
  ELSE IF typeOfChild(children[i]) = "columnDeps" THEN
    pruneChildren(splice1(children, i), i - 1, addAll(deps, children[i].names.v), ns)
  ELSE IF typeOfChild(children[i]) \in {"table", "union"} THEN
    With(pruneDuplicateSqlDeps(children[i], ns), LAMBDA pruned :
      pruneChildren([children EXCEPT ![i] = pruned.node], i - 1, deps,
                    pruned.namespace))
  ELSE pruneChildren(children, i - 1, deps, ns)

\* the lists of Object.values(sqlAST.typedChildren) from the k-th on
pruneTyped(typedChildren, k, ns) ==
  IF k > Len(typedChildren) THEN [typedChildren |-> typedChildren, namespace |-> ns]
  ELSE With(pruneChildren(typedChildren[k].children,
                          Len(typedChildren[k].children), <<>>, ns),
            LAMBDA pruned :
         pruneTyped([typedChildren EXCEPT ![k].children = pruned.children], k + 1,
                    pruned.namespace))

\* lines 460-462 and 467-494: the children of the node
pruneOwnChildren(node, ns) ==
  IF Has(node, "children")
  THEN With(pruneChildren(node.children, Len(node.children), <<>>, ns), LAMBDA pruned :
         [node |-> [node EXCEPT !.children = pruned.children],
          namespace |-> pruned.namespace])
  ELSE [node |-> node, namespace |-> ns]

\* lines 463-465: the lists of typedChildren
pruneTypedChildren(node, ns) ==
  IF Has(node, "typedChildren")
  THEN With(pruneTyped(node.typedChildren, 1, ns), LAMBDA typed :
         [node |-> [node EXCEPT !.typedChildren = typed.typedChildren],
          namespace |-> typed.namespace])
  ELSE [node |-> node, namespace |-> ns]

\* lines 458-495 without lines 463-465: the lists of typedChildren are left alone
pruneDuplicateSqlDeps_childrenOnly(node, ns) == pruneOwnChildren(node, ns)

pruneDuplicateSqlDeps(node, ns) ==
  With(pruneOwnChildren(node, ns), LAMBDA own :
    pruneTypedChildren(own.node, own.namespace))

----------------------------------------------------------------------------
(* the calls explored: definitions of the field "probe" and validated queries *)

\* the longest list of selections the walks enumerate
MaxSelections == 2

Opt(v) == {Undefined, v}

SeqsUpTo(S, n) == UNION {[1..k -> S] : k \in 0..n}

\* the types the field "probe" is declared with
ProbeTypes ==
  {Named("String"), Named("PageInfo"), Named("User"),
   NonNull(List(NonNull(Named("User")))), List(Named("Post")), Named("Animal"),
   Named("UserConnection")}

sqlBatchOfProbe == [thisKey |-> "author_id", parentKey |-> "id"]

junctionBatchOfProbe == [sqlJoin |-> Fn("batchJoin"), thisKey |-> "user_id", parentKey |-> "id"]

NoRelation ==
  [sqlJoin |-> Undefined, sqlBatch |-> Undefined, junctionTable |-> Undefined,
   joinTable |-> Undefined, sqlJoins |-> Undefined, junctionBatch |-> Undefined,
   junctionTableKey |-> Undefined]

\* what a field declares about the relation of its table to the parent's
Relations ==
  {NoRelation,
   [NoRelation EXCEPT !.sqlJoin = Fn("join")],
   [NoRelation EXCEPT !.sqlBatch = sqlBatchOfProbe],
   [NoRelation EXCEPT !.junctionTable = Str("friendships")],
   [NoRelation EXCEPT !.junctionTable = Str("friendships"),
                      !.sqlJoins = Arr(<<Fn("toJunction"), Fn("fromJunction")>>)],
   [NoRelation EXCEPT !.junctionTable = Str("friendships"),
                      !.junctionBatch = junctionBatchOfProbe,
                      !.junctionTableKey = Str("friend_id")],
   [NoRelation EXCEPT !.junctionTable = Str("friendships"),
                      !.junctionBatch = junctionBatchOfProbe,
                      !.junctionTableKey = Arr(<<"user_id", "friend_id">>)],
   [NoRelation EXCEPT !.joinTable = Str("friendships"),
                      !.sqlJoins = Arr(<<Fn("toJunction"), Fn("fromJunction")>>)],
   [NoRelation EXCEPT !.joinTable = Str("friendships"),
                      !.junctionBatch = junctionBatchOfProbe,
                      !.junctionTableKey = Arr(<<"user_id", "friend_id">>)]}

\* the sortKey a field declares, or the one its sortKey function returns
SortKeys ==
  {[key |-> Str("created"), order |-> Str("desc")],
   [key |-> Arr(<<"created", "id">>), order |-> Str("asc")],
   [key |-> Undefined, order |-> Str("asc")],
   [key |-> Str("created"), order |-> Undefined]}

NoPagination == [sqlPaginate |-> FALSE, sortKey |-> Undefined, orderBy |-> Undefined]

\* what a field declares about pagination and order
Paginations ==
  {[NoPagination EXCEPT !.orderBy = ob] : ob \in Opt(Str("name"))}
  \cup {[sqlPaginate |-> TRUE, sortKey |-> sk, orderBy |-> ob] :
          sk \in {Undefined} \cup SortKeys, ob \in Opt(Str("name"))}

\* the field "probe" with the given type, relation, pagination and column annotations
Probe(type, rel, pag, ia, it, se, sc, rs, sd) ==
  [Field("probe", type) EXCEPT
     !.jmIgnoreAll = ia, !.jmIgnoreTable = it, !.sqlExpr = se, !.sqlColumn = sc,
     !.resolve = rs, !.sqlDeps = sd,
     !.sqlJoin = rel.sqlJoin, !.sqlBatch = rel.sqlBatch,
     !.junctionTable = rel.junctionTable, !.joinTable = rel.joinTable,
     !.sqlJoins = rel.sqlJoins, !.junctionBatch = rel.junctionBatch,
     !.junctionTableKey = rel.junctionTableKey,
     !.sqlPaginate = pag.sqlPaginate, !.sortKey = pag.sortKey, !.orderBy = pag.orderBy]

\* every definition of the field "probe" the field-by-field exploration draws from
Probes ==
  {Probe(type, rel, pag, ia, it, se, sc, rs, sd) :
     type \in ProbeTypes, rel \in Relations, pag \in Paginations,
     ia \in BOOLEAN, it \in BOOLEAN, se \in Opt(Fn("expr")), sc \in Opt(Str("probe_column")),
     rs \in Opt(Fn("resolveProbe")), sd \in Opt(Arr(<<"first_name", "age">>))}

Plain(type, rel, pag) ==
  Probe(type, rel, pag, FALSE, FALSE, Undefined, Undefined, Undefined, Undefined)

JoinRelation == [NoRelation EXCEPT !.sqlJoin = Fn("join")]

JunctionBatchRelation ==
  [NoRelation EXCEPT !.junctionTable = Str("friendships"),
                     !.junctionBatch = junctionBatchOfProbe,
                     !.junctionTableKey = Arr(<<"user_id", "friend_id">>)]

\* the definitions of "probe" the walks of selection lists are run with
WalkProbes ==
  {Plain(Named("User"), JoinRelation, NoPagination),
   Plain(List(Named("Post")), [NoRelation EXCEPT !.sqlBatch = sqlBatchOfProbe], NoPagination),
   Plain(List(Named("User")), JunctionBatchRelation, NoPagination),
   Plain(Named("Animal"), JoinRelation, NoPagination),
   Probe(Named("String"), NoRelation, NoPagination, FALSE, FALSE, Undefined, Undefined,
         Fn("resolveProbe"), Arr(<<"first_name", "age">>))}

UnionProbes ==
  {Plain(Named("Animal"), JoinRelation, NoPagination),
   Plain(List(Named("Animal")), [NoRelation EXCEPT !.sqlBatch = sqlBatchOfProbe],
         NoPagination)}

ConnectionProbes ==
  {Plain(Named("UserConnection"), JoinRelation,
         [sqlPaginate |-> TRUE, sortKey |-> [key |-> Str("created"), order |-> Str("desc")],
          orderBy |-> Undefined]),
   Plain(Named("UserConnection"),
         [NoRelation EXCEPT !.junctionTable = Str("friendships"),
                            !.sqlJoins = Arr(<<Fn("toJunction"), Fn("fromJunction")>>)],
         [sqlPaginate |-> TRUE, sortKey |-> Undefined, orderBy |-> Str("name")]),
   Plain(Named("UserConnection"), JoinRelation, NoPagination)}

\* the selection set a validated query has on a field of the given type
SelectionsOn(typeName) ==
  IF typeName = "User" THEN <<Leaf("email"), Leaf("fullName")>>
  ELSE IF typeName = "Post" THEN <<Leaf("title"), Leaf("summary")>>
  ELSE IF typeName = "Animal"
    THEN <<Leaf("name"), InlineFragment("Dog", <<Leaf("barks")>>)>>
  ELSE IF typeName = "UserConnection"
    THEN <<FieldNode("edges", <<>>,
             <<FieldNode("node", <<>>, <<Leaf("email"), Leaf("fullName")>>)>>)>>
  ELSE <<Leaf("cursor")>>

first2 == <<[name |-> "first", value |-> 2]>>

\* the selection of "probe" in a validated query
SelectProbe(p) ==
  IF p.type.name = "String" THEN Leaf("probe")
  ELSE FieldNode("probe", IF p.type.name = "UserConnection" THEN first2 ELSE <<>>,
                 SelectionsOn(p.type.name))

\* the ways "probe" is selected in the selection lists of the walks
ProbeSelections(p) ==
  IF p.type.name = "String" THEN {Leaf("probe")}
  ELSE IF p.type.name = "User"
    THEN {FieldNode("probe", <<>>, <<Leaf("email")>>),
          FieldNode("probe", <<>>, <<Leaf("fullName"), Leaf("id")>>)}
  ELSE IF p.type.name = "Post"
    THEN {FieldNode("probe", <<>>, <<Leaf("title")>>),
          FieldNode("probe", <<>>, <<Leaf("summary"), Leaf("title")>>)}
  ELSE {SelectProbe(p)}

\* the selections the walks of a User's selection list are built from
UserSelections(p) ==
  {Leaf(n) : n \in {"id", "email", "fullName", "initials", "capitalized", "greeting",
                    "__typename"}}
  \cup ProbeSelections(p)
  \cup {InlineFragment("User", <<q>>) : q \in ProbeSelections(p)}
  \cup {InlineFragment("Person", <<Leaf("id"), Leaf("fullName")>>),
        InlineFragment("Post", <<Leaf("title")>>),
        FragmentSpread("UserNames"), FragmentSpread("PersonId"),
        FragmentSpread("PostTitle"), FragmentSpread("ProbeAgain"),
        FieldNode("friend", <<>>, <<Leaf("initials")>>),
        FieldNode("friend", <<>>, <<Leaf("email"), FragmentSpread("UserNames")>>)}

\* the selections the walks of an Animal's selection list are built from
UnionSelections ==
  {Leaf("name"), Leaf("__typename"),
   InlineFragment("Dog", <<Leaf("barks")>>),
   InlineFragment("Dog", <<Leaf("name"), FieldNode("owner", <<>>, <<Leaf("fullName")>>)>>),
   InlineFragment("Cat", <<Leaf("lives")>>),
   InlineFragment("Animal", <<Leaf("name")>>),
   InlineFragment("Animal", <<InlineFragment("Dog", <<Leaf("barks"), Leaf("barks")>>)>>),
   FragmentSpread("DogBarks"), FragmentSpread("AnimalName")}

\* the selections the walks of a connection's selection list are built from
ConnectionSelections ==
  {FieldNode("edges", <<>>, <<FieldNode("node", <<>>, <<Leaf("email")>>)>>),
   FieldNode("edges", <<>>, <<Leaf("cursor")>>),
   FieldNode("pageInfo", <<>>, <<Leaf("cursor")>>),
   InlineFragment("UserConnection",
     <<FieldNode("edges", <<>>, <<FieldNode("node", <<>>, <<Leaf("capitalized")>>)>>)>>),
   FieldNode("edges", <<>>,
     <<InlineFragment("UserEdge", <<FieldNode("node", <<>>, <<Leaf("email")>>)>>)>>),
   FragmentSpread("Edges"),
   FieldNode("edges", <<>>, <<FragmentSpread("Node")>>)}

Call(p, fieldNodes) == [probe |-> p, fieldNodes |-> fieldNodes]

UnderFriend(selections) == FieldNode("friend", <<>>, selections)

\* resolver calls that are about the field the resolver is on
RootCalls ==
  UNION {{Call(p, <<>>),
          Call(p, <<SelectProbe(p), SelectProbe(p)>>),
          Call(p, <<SelectProbe(p)>>),
          Call(p, <<Leaf("nope")>>),
          Call(p, <<UnderFriend(<<Leaf("nope")>>)>>),
          Call(p, <<UnderFriend(<<Leaf("__typename")>>)>>)}
         \cup {Call(p, <<Leaf(n)>>) :
                 n \in {"email", "fullName", "capitalized", "greeting", "__typename"}} :
           p \in WalkProbes \cup UnionProbes \cup ConnectionProbes}

----------------------------------------------------------------------------
(* queryASTToSqlAST, one action per statement that can end the call *)

\* lines 10-17: the call is entered with its argument, sqlAST = {}
Called(p, fieldNodes) ==
  /\ pc = "start"
  /\ sqlAST = EmptyObject
  /\ namespace = NewAliasNamespace
  /\ error = NoError
  /\ probe = p
  /\ resolveInfo = [fieldNodes |-> fieldNodes, parentType |-> "User"]

\* the walks: resolver calls with every selection list up to MaxSelections on a
\* User, on an Animal and on a connection, and the calls about the root
Init ==
  \/ \E p \in WalkProbes : \E S \in SeqsUpTo(UserSelections(p), MaxSelections) :
       Called(p, <<UnderFriend(S)>>)
  \/ \E p \in UnionProbes : \E S \in SeqsUpTo(UnionSelections, MaxSelections) :
       Called(p, <<UnderFriend(<<FieldNode("probe", <<>>, S)>>)>>)
  \/ \E p \in ConnectionProbes : \E S \in SeqsUpTo(ConnectionSelections, MaxSelections) :
       \E a \in {<<>>, first2} :
         \/ Called(p, <<FieldNode("probe", a, S)>>)
         \/ Called(p, <<UnderFriend(<<FieldNode("probe", a, S)>>)>>)
  \/ \E call \in RootCalls : Called(call.probe, call.fieldNodes)

\* every definition of "probe", selected by the resolver's field and under "friend"
FieldInit ==
  \/ \E p \in Probes :
       \/ Called(p, <<SelectProbe(p)>>)
       \/ Called(p, <<UnderFriend(<<SelectProbe(p)>>)>>)
  \/ \E call \in RootCalls : Called(call.probe, call.fieldNodes)

\* line 29 seen from the caller: populateASTNode threw, or it filled sqlAST
Populated(r) ==
  IF IsError(r) THEN
    /\ pc' = "threw"
    /\ error' = r.err
    /\ UNCHANGED <<sqlAST, namespace>>
  ELSE
    /\ pc' = "populated"
    /\ sqlAST' = r.node
    /\ namespace' = r.namespace
    /\ UNCHANGED error

\* lines 14-29: the namespace, the check of fieldNodes and the translation
Populate ==
  /\ pc = "start"
  /\ IF Len(resolveInfo.fieldNodes) # 1 THEN
       /\ pc' = "threw"
       /\ error' = [kind |-> "AssertionError",
                    message |-> "We thought this would always have a length of 1"]
       /\ UNCHANGED <<sqlAST, namespace>>
     ELSE
       Populated(populateASTNode(resolveInfo.fieldNodes[1],
                                 typeNamed(resolveInfo.parentType),
                                 EmptyObject, NewAliasNamespace, 0))
  /\ UNCHANGED <<resolveInfo, probe>>

\* line 32: the message of the assertion
notOnATable ==
  "Must call joinMonster in a resolver on a field where the type is decorated with \"sqlTable\"."

\* line 32 with a union taken for a table
AssertTable_orUnion ==
  /\ pc = "populated"
  /\ IF sqlAST.type \in {"table", "union"} THEN
       /\ pc' = "asserted"
       /\ UNCHANGED error
     ELSE
       /\ pc' = "threw"
       /\ error' = [kind |-> "AssertionError", message |-> notOnATable]
  /\ UNCHANGED <<resolveInfo, probe, sqlAST, namespace>>

\* line 32: make sure they started this party on a table
AssertTable ==
  /\ pc = "populated"
  /\ IF sqlAST.type = "table" THEN
       /\ pc' = "asserted"
       /\ UNCHANGED error
     ELSE
       /\ pc' = "threw"
       /\ error' = [kind |-> "AssertionError", message |-> notOnATable]
  /\ UNCHANGED <<resolveInfo, probe, sqlAST, namespace>>

\* line 35 seen from the caller: the node and the namespace as the pruning left them
Pruned(r) ==
  /\ sqlAST' = r.node
  /\ namespace' = r.namespace

\* lines 35-37
Prune ==
  /\ pc = "asserted"
  /\ Pruned(pruneDuplicateSqlDeps(sqlAST, namespace))
  /\ pc' = "returned"
  /\ UNCHANGED <<resolveInfo, probe, error>>

Next == Populate \/ AssertTable \/ Prune

\* the walks of selection lists
Spec == Init /\ [][Next]_vars

\* the field "probe" under every combination of annotations
FieldSpec == FieldInit /\ [][Next]_vars

----------------------------------------------------------------------------
(* reading the tree *)

Range(seq) == {seq[i] : i \in DOMAIN seq}

isTableNode(node) == Has(node, "type") /\ node.type \in {"table", "union"}

\* a node a selection asked for: populateASTNode has put the arguments on it
isRequested(node) == Has(node, "args")

\* a columnDeps node as populateASTNode leaves it: names is the array sqlDeps
isDepsRequest(node) ==
  /\ Has(node, "type") /\ node.type = "columnDeps"
  /\ "t" \in DOMAIN node.names /\ node.names.t = "array"

\* a columnDeps node as pruneDuplicateSqlDeps builds it: names maps names to aliases
isDepsNode(node) ==
  Has(node, "type") /\ node.type = "columnDeps" /\ ~isDepsRequest(node)

\* the lists of children of a node: its children, then each list of typedChildren
ChildLists(node) ==
  (IF Has(node, "children") THEN <<node.children>> ELSE <<>>)
  \o (IF Has(node, "typedChildren")
      THEN [k \in DOMAIN node.typedChildren |-> node.typedChildren[k].children]
      ELSE <<>>)

\* the type of the schema a table node was built for
TypeOfTable(node) ==
  TypeMap[CHOOSE n \in DOMAIN TypeMap :
            /\ "sqlTable" \in DOMAIN TypeMap[n]
            /\ TypeMap[n].sqlTable = Str(node.name)]

\* the node is the one keyToASTChild builds from the key
isKeyNode(node, key) ==
  /\ Has(node, "type") /\ Has(node, "name")
  /\ key.t = "string" => node.type = "column" /\ node.name = key.v
  /\ key.t = "array" => node.type = "composite" /\ node.name = key.v
  /\ key.t \in {"string", "array"}

Planned == pc \in {"populated", "asserted", "returned"}

----------------------------------------------------------------------------
(* C1 *)

\* C1: in every plan returned, the first child of every table or union node, at
\* any depth and whatever its relation to the parent, is the node built from the
\* uniqueKey of its type: a column for a string, a composite for an array.
RECURSIVE UniqueKeyFirst(_)
\* the node and every table or union node under it has the key as first child
UniqueKeyFirst(node) ==
  /\ Len(node.children) >= 1
  /\ isKeyNode(node.children[1], TypeOfTable(node).uniqueKey)
  /\ \A k \in DOMAIN ChildLists(node) :
       \A i \in DOMAIN ChildLists(node)[k] :
         isTableNode(ChildLists(node)[k][i]) => UniqueKeyFirst(ChildLists(node)[k][i])

C1_UniqueKeyFirst == pc = "returned" => UniqueKeyFirst(sqlAST)

----------------------------------------------------------------------------
(* C2 *)

\* no two requested children of the list have the same fieldName
OnePerFieldName(list) ==
  \A i, j \in DOMAIN list :
    (/\ i < j
     /\ isRequested(list[i]) /\ isRequested(list[j])
     /\ Has(list[i], "fieldName") /\ Has(list[j], "fieldName"))
    => list[i].fieldName # list[j].fieldName

RECURSIVE OnePerFieldNameUnder(_)
\* the lists handleSelections has walked, in the node and under it: the children
\* of a table and the typed lists of a union
OnePerFieldNameUnder(node) ==
  /\ node.type = "table" => OnePerFieldName(node.children)
  /\ node.type = "union" =>
       \A k \in DOMAIN node.typedChildren : OnePerFieldName(node.typedChildren[k].children)
  /\ \A k \in DOMAIN ChildLists(node) :
       \A i \in DOMAIN ChildLists(node)[k] :
         isTableNode(ChildLists(node)[k][i]) => OnePerFieldNameUnder(ChildLists(node)[k][i])

\* C2: a field name selected more than once in a selection list that
\* handleSelections walks yields one child with that fieldName in the list, so
\* no list holds two requested children with the same fieldName.
C2_OneChildPerFieldName ==
  (Planned /\ isTableNode(sqlAST)) => OnePerFieldNameUnder(sqlAST)

----------------------------------------------------------------------------
(* C3 *)

\* the names the columnDeps requests of a list ask for
RequestedDeps(list) ==
  UNION {Range(list[i].names.v) : i \in {j \in DOMAIN list : isDepsRequest(list[j])}}

RECURSIVE PrunedNode(_, _)
RECURSIVE PrunedList(_, _)

\* after is the list before with its requests gone and one node for their names
PrunedList(before, after) ==
  LET depsNodes == {i \in DOMAIN after : isDepsNode(after[i])}
      keptBefore == SelectSeq(before, LAMBDA c : ~isDepsRequest(c))
      keptAfter == SelectSeq(after, LAMBDA c : ~(Has(c, "type") /\ c.type = "columnDeps"))
  IN /\ \A i \in DOMAIN after : ~isDepsRequest(after[i])
     /\ Cardinality(depsNodes) <= 1
     /\ \A i \in depsNodes : DOMAIN after[i].names = RequestedDeps(before)
     /\ depsNodes = {} => RequestedDeps(before) = {}
     /\ Len(keptAfter) = Len(keptBefore)
     /\ \A i \in DOMAIN keptBefore :
          isTableNode(keptBefore[i]) =>
            isTableNode(keptAfter[i]) /\ PrunedNode(keptBefore[i], keptAfter[i])

PrunedNode(before, after) ==
  /\ Len(ChildLists(after)) = Len(ChildLists(before))
  /\ \A k \in DOMAIN ChildLists(before) :
       PrunedList(ChildLists(before)[k], ChildLists(after)[k])

\* C3: after pruneDuplicateSqlDeps every list of children, at every depth and in
\* typedChildren too, holds no columnDeps request and at most one dependency
\* node, whose names are exactly the names requested in that list before the pass.
C3_DepsPrunedPerLevel ==
  [][pc = "asserted" => PrunedNode(sqlAST, sqlAST')]_vars

\* the names of the dependency nodes of a list
DepsNames(list) ==
  UNION {DOMAIN list[i].names : i \in {j \in DOMAIN list : isDepsNode(list[j])}}

\* a plan whose root asked for two names, one of them twice, and holds a table
\* that asked for another name
C3_Witness ==
  /\ pc = "returned"
  /\ \E i \in DOMAIN resolveInfo.fieldNodes[1].selectionSet.selections :
       resolveInfo.fieldNodes[1].selectionSet.selections[i] = Leaf("initials")
  /\ DepsNames(sqlAST.children) = {"first_name", "last_name"}
  /\ \E i \in DOMAIN sqlAST.children :
       /\ isTableNode(sqlAST.children[i])
       /\ DepsNames(sqlAST.children[i].children) = {"body"}

----------------------------------------------------------------------------
(* C4 *)

\* C4: the call returns a root of type table or fails: a root translated to
\* anything else, or a number of field nodes other than 1, ends the call with an
\* error, and nothing is returned.
C4_RootTableOrError ==
  [][/\ (pc = "start" /\ Len(resolveInfo.fieldNodes) # 1)
          => pc' = "threw" /\ error'.kind = "AssertionError"
     /\ (pc = "populated" /\ sqlAST.type # "table")
          => pc' = "threw" /\ error'.kind = "AssertionError"
     /\ pc' \in {"asserted", "returned"}
          => Len(resolveInfo.fieldNodes) = 1 /\ sqlAST'.type = "table"
     /\ pc # "threw"]_vars

\* the root was translated to a column, an expression, a columnDeps or a noop
\* node and the call threw on it
C4_Witness ==
  /\ pc = "threw"
  /\ Has(sqlAST, "type")
  /\ sqlAST.type \in {"noop", "column", "expression", "columnDeps"}
  /\ error.kind = "AssertionError"

----------------------------------------------------------------------------
(* the field a call is about *)

\* the query selects one field, as the resolver's field or alone under "friend"
Direct ==
  /\ Len(resolveInfo.fieldNodes) = 1
  /\ resolveInfo.fieldNodes[1].name = "friend" =>
       /\ Truthy(resolveInfo.fieldNodes[1].selectionSet)
       /\ Len(resolveInfo.fieldNodes[1].selectionSet.selections) = 1
       /\ resolveInfo.fieldNodes[1].selectionSet.selections[1].kind = "Field"

\* the depth populateASTNode is called with on that field
TargetDepth == IF resolveInfo.fieldNodes[1].name = "friend" THEN 1 ELSE 0

\* its selection in the query
Target ==
  IF TargetDepth = 0 THEN resolveInfo.fieldNodes[1]
  ELSE resolveInfo.fieldNodes[1].selectionSet.selections[1]

\* its node in the tree: the root, or the child of "friend" after the key
TargetNode == IF TargetDepth = 0 THEN sqlAST ELSE sqlAST.children[2]

ProbeTargeted == Direct /\ Target.name = "probe"

\* the call threw at line 32, on the root translated
ThrewOnRoot ==
  pc = "threw" /\ error.kind = "AssertionError" /\ error.message = notOnATable

\* populateASTNode returned: the tree is in sqlAST
Translated == Planned \/ ThrewOnRoot

\* the tree is in sqlAST and holds the node of the field: the pass over the
\* dependencies has not taken it out of the children of "friend"
InTree ==
  /\ Translated
  /\ (pc = "returned" /\ TargetDepth = 1) => ~isDepsNode(sqlAST.children[2])

\* populateASTNode threw
TranslationFailed == pc = "threw" /\ ~ThrewOnRoot /\ Len(resolveInfo.fieldNodes) = 1

\* the declared type is a list, under a non-null or not
ListWrapped(field) == \E i \in DOMAIN field.type.wrap : field.type.wrap[i] = "GraphQLList"

\* the declared type, unwrapped, has an edges and a pageInfo field
ConnectionShaped(field) ==
  /\ TypeMap[field.type.name].ctor = "GraphQLObjectType"
  /\ "edges" \in DOMAIN TypeMap[field.type.name].fields
  /\ "pageInfo" \in DOMAIN TypeMap[field.type.name].fields

\* the name of the type the field is about: the type of "node" for a connection
UnwrappedTypeName(field) ==
  IF ConnectionShaped(field)
  THEN TypeMap[TypeMap[field.type.name].fields["edges"].type.name].fields["node"].type.name
  ELSE field.type.name

\* that type is an object, union or interface type with a sqlTable
TableBacked(field) ==
  /\ TypeMap[UnwrappedTypeName(field)].ctor \in
       {"GraphQLObjectType", "GraphQLUnionType", "GraphQLInterfaceType"}
  /\ Truthy(TypeMap[UnwrappedTypeName(field)].sqlTable)

\* the field is neither ignored nor asks for a pagination it cannot have, so
\* populateASTNode comes to ask whether it is a table
Classified(field) ==
  /\ ~field.jmIgnoreAll
  /\ field.sqlPaginate =>
       ConnectionShaped(field) /\ (Truthy(field.sortKey) \/ Truthy(field.orderBy))

\* the field is translated by handleTable
TableField(field) == Classified(field) /\ TableBacked(field) /\ ~field.jmIgnoreTable

\* the variants the rules of the claim give a field, the first rule that applies
ExpectedVariants(field) ==
  IF field.jmIgnoreAll THEN {"noop"}
  ELSE IF TableBacked(field) /\ ~field.jmIgnoreTable THEN {"table", "union"}
  ELSE IF Truthy(field.sqlExpr) THEN {"expression"}
  ELSE IF Truthy(field.sqlColumn) \/ ~Truthy(field.resolve) THEN {"column"}
  ELSE IF Truthy(field.sqlDeps) THEN {"columnDeps"}
  ELSE {"noop"}

\* the error of lines 103-105
MissingRelation(err) ==
  /\ err.kind = "AssertionError"
  /\ Has(err, "fieldName") /\ Has(err, "parentType")
  /\ err.message = "you must define sqlJoin, sqlBatch, or junctionTable on that field"

----------------------------------------------------------------------------
(* C5 *)

----------------------------------------------------------------------------
(* C6 *)

\* a sortKey, where pagination goes by it, has its key and its order
SortKeyComplete(field) ==
  (field.sqlPaginate /\ Truthy(field.sortKey))
    => Truthy(field.sortKey.key) /\ Truthy(field.sortKey.order)

\* C6: a table field that declares joinTable with sqlJoins or junctionBatch is
\* accepted at every depth: the translation does not fail, and the table node gets
\* junctionTable, junctionTableAs and the join or batch descriptors.
C6_LegacyJunctionAccepted ==
  (/\ pc # "start"
   /\ ProbeTargeted
   /\ TableField(probe) /\ SortKeyComplete(probe)
   /\ Truthy(probe.joinTable) /\ ~Truthy(probe.junctionTable)
   /\ ~Truthy(probe.sqlJoin) /\ ~Truthy(probe.sqlBatch)
   /\ Truthy(probe.sqlJoins) \/ Truthy(probe.junctionBatch))
  => /\ ~TranslationFailed
     /\ Translated =>
          /\ isTableNode(TargetNode)
          /\ Has(TargetNode, "junctionTable") /\ Has(TargetNode, "junctionTableAs")
          /\ TargetNode.junctionTable = probe.joinTable.v
          /\ Truthy(probe.sqlJoins) =>
               Has(TargetNode, "sqlJoins") /\ TargetNode.sqlJoins = probe.sqlJoins
          /\ ~Truthy(probe.sqlJoins) => Has(TargetNode, "junctionBatch")

----------------------------------------------------------------------------
(* C7 *)

\* how many children handleTable pushes before the columns of pagination: the
\* key of the junction for a junctionBatch, the unique key, the alwaysFetch
\* columns and the typeHint
SeededBefore(node) ==
  (IF Has(node, "junctionBatch") THEN 1 ELSE 0)
  + 1
  + (IF Truthy(TypeOfTable(node).alwaysFetch)
     THEN Len(wrap(TypeOfTable(node).alwaysFetch)) ELSE 0)
  + (IF Truthy(TypeOfTable(node).typeHint)
        /\ TypeOfTable(node).ctor \in {"GraphQLUnionType", "GraphQLInterfaceType"}
     THEN 1 ELSE 0)

\* the children no selection asked for, but the dependency node
Unrequested(node) ==
  SelectSeq(node.children,
            LAMBDA c : ~isRequested(c) /\ ~(Has(c, "type") /\ c.type = "columnDeps"))

\* the columns handleColumnsRequiredForPagination has added
PaginationColumns(node) ==
  SubSeq(Unrequested(node), SeededBefore(node) + 1, Len(Unrequested(node)))

\* the names the claim gives them
ExpectedPaginationColumns(field) ==
  IF Truthy(field.sortKey)
  THEN IF Truthy(field.sortKey.key) THEN wrap(field.sortKey.key) ELSE <<>>
  ELSE IF Truthy(field.orderBy) THEN <<"$total">>
  ELSE <<>>

\* C7: for a connection field with sqlPaginate that is translated as a table,
\* the pagination columns are one column per key of sortKey.key and no $total
\* when the field declares a sortKey (with an orderBy or not), and one $total
\* alone when it declares an orderBy and no sortKey; each carries fromOtherTable =
\* junctionTableAs exactly when the node has a junction table.
C7_PaginationColumns ==
  (/\ Translated
   /\ ProbeTargeted
   /\ ConnectionShaped(probe) /\ probe.sqlPaginate
   /\ isTableNode(TargetNode))
  => LET cols == PaginationColumns(TargetNode)
         names == ExpectedPaginationColumns(probe)
     IN /\ Len(cols) = Len(names)
        /\ \A i \in DOMAIN cols :
             /\ cols[i].type = "column"
             /\ cols[i].name = names[i]
             /\ Has(cols[i], "fromOtherTable") <=> Has(TargetNode, "junctionTable")
             /\ Has(cols[i], "fromOtherTable") =>
                  cols[i].fromOtherTable = TargetNode.junctionTableAs

\* a returned plan of a connection through a junction table, with a sortKey of
\* two keys and an orderBy
C7_Witness ==
  /\ pc = "returned"
  /\ ProbeTargeted
  /\ ConnectionShaped(probe) /\ probe.sqlPaginate
  /\ Truthy(probe.sortKey) /\ Truthy(probe.orderBy)
  /\ probe.sortKey.key = Arr(<<"created", "id">>)
  /\ Has(TargetNode, "junctionTable")
  /\ Len(PaginationColumns(TargetNode)) = 2

----------------------------------------------------------------------------
(* C8 *)

\* the errors of lines 90, 508, 401 and 402
PaginationError(err) ==
  err.message \in
    {"To paginate the type, it must fulfil the relay spec",
     "\"sortKey\" or \"orderBy\" required if \"sqlPaginate\" is true",
     "\"sortKey\" must have \"key\"", "\"sortKey\" must have \"order\""}

\* the cases in which the pagination asked for cannot be had; a sortKey is
\* looked into where the field is translated as a table
InvalidPagination(field) ==
  \/ ~ConnectionShaped(field)
  \/ ~Truthy(field.sortKey) /\ ~Truthy(field.orderBy)
  \/ /\ Truthy(field.sortKey)
     /\ ~Truthy(field.sortKey.key) \/ ~Truthy(field.sortKey.order)
     /\ TableBacked(field) /\ ~field.jmIgnoreTable

----------------------------------------------------------------------------
(* C9 *)

\* the type of the edges of a connection
EdgeTypeName(field) == TypeMap[field.type.name].fields["edges"].type.name

\* the "node" under the "edges" of the selections, each looked for also in the
\* fragments that apply at its level; Undefined when there is none
NodeUnderEdges(field, selections) ==
  LET edges == findNamed(spreadFragments(selections, Fragments, field.type.name), "edges")
  IN IF Truthy(edges)
     THEN findNamed(spreadFragments(edges.selectionSet.selections, Fragments,
                                    EdgeTypeName(field)), "node")
     ELSE Undefined

\* the names of the fields selected on that node, but those whose node has no
\* fieldName: the fields that depend on columns or have nothing in SQL
NamesUnderNode(field, selections) ==
  LET node == NodeUnderEdges(field, selections)
      names == IF Truthy(node)
               THEN [i \in DOMAIN node.selectionSet.selections |->
                       node.selectionSet.selections[i].name]
               ELSE <<>>
      named(n) == ExpectedVariants(TypeMap[UnwrappedTypeName(field)].fields[n])
                    \cap {"columnDeps", "noop"} = {}
  IN SelectSeq(names, named)

\* the field names of the children a selection asked for
RequestedNames(node) ==
  LET requested == SelectSeq(node.children,
                             LAMBDA c : isRequested(c) /\ Has(c, "fieldName"))
  IN [i \in DOMAIN requested |-> requested[i].fieldName]

\* C9: for a connection field translated as a table, the children asked for are
\* those of the "node" found under "edges", both found directly or in the named
\* and inline fragments that apply at their level; without "edges" there are
\* none; the arguments of the connection field are those of the node.
C9_NodeFoundThroughFragments ==
  (/\ Translated
   /\ ProbeTargeted
   /\ ConnectionShaped(probe)
   /\ isTableNode(TargetNode))
  => /\ RequestedNames(TargetNode) = NamesUnderNode(probe, Target.selectionSet.selections)
     /\ TargetNode.args = getArgumentValues(Target)

----------------------------------------------------------------------------
(* C10 *)

\* C10: a field gets the variant of the first rule that applies: noop for a name
\* that starts with __ or a jmIgnoreAll field, table or union for a table-backed
\* type unless jmIgnoreTable, expression for sqlExpr, column for sqlColumn or no
\* resolver, columnDeps for sqlDeps, noop otherwise; a name that is not in the
\* parent type and does not start with __ is an error; grabMany is true exactly
\* for a list or a connection.
C10_VariantByFirstRule ==
  (pc # "start" /\ Direct)
  => IF SubSeq(Target.name, 1, 2) = "__"
       THEN Translated /\ (InTree => TargetNode.type = "noop")
     ELSE IF Target.name \notin DOMAIN typeNamed("User").fields
       THEN /\ TranslationFailed
            /\ error.kind = "Error"
            /\ Has(error, "fieldName") /\ error.fieldName = Target.name
     ELSE InTree =>
            /\ TargetNode.type \in ExpectedVariants(typeNamed("User").fields[Target.name])
            /\ isTableNode(TargetNode) =>
                 (TargetNode.grabMany <=>
                    (\/ ListWrapped(typeNamed("User").fields[Target.name])
                     \/ ConnectionShaped(typeNamed("User").fields[Target.name])))

\* a field with sqlColumn, a resolver and sqlDeps on a type without a table, which
\* the rule of the column takes before the rule of sqlDeps
C10_Witness ==
  /\ InTree
  /\ ProbeTargeted /\ TargetDepth = 1
  /\ ~probe.jmIgnoreAll /\ ~TableBacked(probe)
  /\ ~Truthy(probe.sqlExpr) /\ Truthy(probe.sqlColumn)
  /\ Truthy(probe.resolve) /\ Truthy(probe.sqlDeps)
  /\ TargetNode.type = "column"

----------------------------------------------------------------------------
(* C11 *)

\* the fields selected in the selections of a fragment on an object type, those
\* of the fragments on the type and on its interfaces among them
RECURSIVE FieldsWalked(_, _)
FieldsWalked(selections, typeName) ==
  IF selections = <<>> THEN <<>>
  ELSE (IF Head(selections).kind = "Field" THEN <<Head(selections)>>
        ELSE IF \/ fragmentOf(Head(selections)).typeCondition = typeName
                \/ \E k \in DOMAIN TypeMap[typeName].interfaces :
                     TypeMap[typeName].interfaces[k]
                       = fragmentOf(Head(selections)).typeCondition
          THEN FieldsWalked(fragmentOf(Head(selections)).selectionSet.selections, typeName)
        ELSE <<>>)
       \o FieldsWalked(Tail(selections), typeName)

\* the fields selected inside the fragments on the object type among the
\* selections of a union or an interface; a fragment on the union or interface
\* itself is looked into
RECURSIVE FieldsInFragmentsOn(_, _)
FieldsInFragmentsOn(selections, typeName) ==
  IF selections = <<>> THEN <<>>
  ELSE (IF Head(selections).kind = "Field" THEN <<>>
        ELSE IF fragmentOf(Head(selections)).typeCondition = typeName
          THEN FieldsWalked(fragmentOf(Head(selections)).selectionSet.selections, typeName)
        ELSE IF TypeMap[fragmentOf(Head(selections)).typeCondition].ctor = "GraphQLObjectType"
          THEN <<>>
        ELSE FieldsInFragmentsOn(fragmentOf(Head(selections)).selectionSet.selections,
                                 typeName))
       \o FieldsInFragmentsOn(Tail(selections), typeName)

\* the field of the type a selection names translates to a table
SelectsTable(typeName, selection) ==
  /\ ~isInternal(selection.name)
  /\ selection.name \in DOMAIN typeNamed(typeName).fields
  /\ ExpectedVariants(typeNamed(typeName).fields[selection.name]) = {"table", "union"}

\* what tells the node of a selection from the others: the fieldName where the
\* node has one, its variant where it has none
ExpectedLabel(typeName, selection) ==
  IF isInternal(selection.name) THEN "noop"
  ELSE IF ExpectedVariants(typeNamed(typeName).fields[selection.name])
            \cap {"columnDeps", "noop"} = {}
    THEN selection.name
  ELSE CHOOSE v \in ExpectedVariants(typeNamed(typeName).fields[selection.name]) : TRUE

\* one label per node the fields get: a table field selected again has no new node
ExpectedLabels(typeName, fields) ==
  LET numbered == [i \in DOMAIN fields |-> [i |-> i, label |-> ExpectedLabel(typeName, fields[i])]]
      first(x) == ~(/\ SelectsTable(typeName, fields[x.i])
                    /\ \E j \in 1..(x.i - 1) : fields[j].name = fields[x.i].name)
      kept == SelectSeq(numbered, first)
  IN [i \in DOMAIN kept |-> kept[i].label]

\* the labels of the nodes of a list that a selection asked for
RequestedLabels(list) ==
  LET requested == SelectSeq(list, isRequested)
  IN [i \in DOMAIN requested |->
        IF Has(requested[i], "fieldName") THEN requested[i].fieldName
        ELSE requested[i].type]

\* the union is the node of "probe", selected alone under "friend", as
\* handleUnionSelections left it
UnionWalked ==
  /\ pc \in {"populated", "asserted"}
  /\ ProbeTargeted /\ TargetDepth = 1
  /\ TargetNode.type = "union"

\* C11: after the walk of the selections of a union or interface, in any order,
\* the list typedChildren[T] holds the nodes of the fields selected inside the
\* fragments on the object type T and no other node, and no node left in the
\* children of the union itself is marked as deferred from it.
C11_TypedChildrenFromOwnFragments ==
  UnionWalked
  => /\ \A k \in DOMAIN TargetNode.typedChildren :
          RequestedLabels(TargetNode.typedChildren[k].children)
            = ExpectedLabels(TargetNode.typedChildren[k].type,
                             FieldsInFragmentsOn(Target.selectionSet.selections,
                                                 TargetNode.typedChildren[k].type))
     /\ \A i \in DOMAIN TargetNode.children :
          isRequested(TargetNode.children[i])
            => ~Truthy(Get(TargetNode.children[i], "defferedFrom"))

----------------------------------------------------------------------------
(* C12 *)

\* the node but for its lists of children: its variant, name, alias and the rest
Own(node) == [k \in DOMAIN node \ {"children", "typedChildren"} |-> node[k]]

\* the children of a list that are no columnDeps nodes, in their order
NotDeps(list) == SelectSeq(list, LAMBDA c : ~(Has(c, "type") /\ c.type = "columnDeps"))

RECURSIVE FramedNode(_, _)
RECURSIVE FramedList(_, _)

\* after is the list before without its columnDeps children, the others as they
\* were and in their order, and one dependency node at the end
FramedList(before, after) ==
  /\ Len(after) = Len(NotDeps(before)) + 1
  /\ isDepsNode(after[Len(after)])
  /\ \A i \in DOMAIN NotDeps(before) :
       /\ Has(after[i], "type") <=> Has(NotDeps(before)[i], "type")
       /\ Has(after[i], "type") => after[i].type = NotDeps(before)[i].type
       /\ IF isTableNode(NotDeps(before)[i])
          THEN FramedNode(NotDeps(before)[i], after[i])
          ELSE after[i] = NotDeps(before)[i]
  /\ (before # <<>> /\ NotDeps(<<before[1]>>) # <<>>)
       => Own(after[1]) = Own(before[1])

\* the table or union is what it was, and so is each of its lists
FramedNode(before, after) ==
  /\ DOMAIN after = DOMAIN before
  /\ Own(after) = Own(before)
  /\ Has(before, "typedChildren") =>
       /\ Len(after.typedChildren) = Len(before.typedChildren)
       /\ \A k \in DOMAIN before.typedChildren :
            after.typedChildren[k].type = before.typedChildren[k].type
  /\ \A k \in DOMAIN ChildLists(before) :
       FramedList(ChildLists(before)[k], ChildLists(after)[k])

\* C12: pruneDuplicateSqlDeps changes a list of children only by taking out its
\* columnDeps children and pushing one dependency node at the end: at every
\* level the other children keep their order, a first child that is no
\* columnDeps node (the unique key) stays the first, and no other node is
\* taken out or gets another variant, name or alias.
C12_PruneKeepsOtherChildren ==
  [][pc = "asserted" => FramedNode(sqlAST, sqlAST')]_vars

\* a plan returned for friend { fullName email probe { ... } }: the request for
\* the names of fullName is gone from between the key and email, and the table
\* of probe is still the child after email
C12_Witness ==
  /\ pc = "returned"
  /\ Len(resolveInfo.fieldNodes) = 1
  /\ resolveInfo.fieldNodes[1].name = "friend"
  /\ Len(resolveInfo.fieldNodes[1].selectionSet.selections) = 2
  /\ resolveInfo.fieldNodes[1].selectionSet.selections[1] = Leaf("fullName")
  /\ resolveInfo.fieldNodes[1].selectionSet.selections[2].kind = "Field"
  /\ resolveInfo.fieldNodes[1].selectionSet.selections[2].name = "probe"
  /\ Len(sqlAST.children) = 3
  /\ isKeyNode(sqlAST.children[1], Str("id"))
  /\ isTableNode(sqlAST.children[2])
  /\ isDepsNode(sqlAST.children[3])
  /\ DOMAIN sqlAST.children[3].names = {"first_name", "last_name"}

----------------------------------------------------------------------------
(* C13 *)

\* how many columns handleColumnsRequiredForPagination pushes for the node
PagingColumns(node) ==
  IF ~(Has(node, "paginate") /\ node.paginate) THEN 0
  ELSE IF Truthy(Get(node, "sortKey")) THEN Len(wrap(node.sortKey.key))
  ELSE IF Truthy(Get(node, "orderBy")) THEN 1
  ELSE 0

\* a child handleTable has pushed by itself: a column or a composite that no
\* selection asked for
isSeeded(node) ==
  ~isRequested(node) /\ Has(node, "type") /\ node.type \in {"column", "composite"}

\* the children handleTable pushes by itself are in the list once, as for a field
\* selected once, and before every child a selection asked for
SeededOnce(node) ==
  /\ Len(node.children) >= SeededBefore(node) + PagingColumns(node)
  /\ \A i \in DOMAIN node.children :
       isSeeded(node.children[i]) <=> i <= SeededBefore(node) + PagingColumns(node)

\* the selections of "friend", the resolver's field, name a table field of User
\* more than once, directly or in the fragments that apply
SelectedAgain(fieldName) ==
  /\ Len(resolveInfo.fieldNodes) = 1
  /\ resolveInfo.fieldNodes[1].name = "friend"
  /\ Truthy(resolveInfo.fieldNodes[1].selectionSet)
  /\ \E i, j \in DOMAIN FieldsWalked(resolveInfo.fieldNodes[1].selectionSet.selections, "User") :
       /\ i < j
       /\ FieldsWalked(resolveInfo.fieldNodes[1].selectionSet.selections, "User")[i].name
            = fieldName
       /\ FieldsWalked(resolveInfo.fieldNodes[1].selectionSet.selections, "User")[j].name
            = fieldName
       /\ SelectsTable("User",
            FieldsWalked(resolveInfo.fieldNodes[1].selectionSet.selections, "User")[i])

\* C13: where a table field is selected more than once in one selection list, the
\* one table node it gets holds the children handleTable seeds (the unique key,
\* the alwaysFetch columns, the columns of pagination) once each, as if it had
\* been selected once, and all of them before the children the selections ask for.
C13_SeededOnceWhenSelectedAgain ==
  (Planned /\ isTableNode(sqlAST))
  => \A i \in DOMAIN sqlAST.children :
       (/\ isTableNode(sqlAST.children[i])
        /\ SelectedAgain(sqlAST.children[i].fieldName))
       => SeededOnce(sqlAST.children[i])

====
